---- MODULE Spec2Model ----
(***************************************************************************)
(* ProcessXY: the graph reconciliation engine.                             *)
(*                                                                         *)
(*   hooks/useGraphStream  streamGraph / abort / mergeNodes                *)
(*   components/ChatInterface (hook based version)                         *)
(*                         handleSendMessage and the hook callbacks        *)
(*                         onModeSet, onNodeAdded, onNodeRemoved,          *)
(*                         onEdgesSet, onComplete, onError                 *)
(*   App                   onGraphUpdate = setNodes + setEdges             *)
(*                                                                         *)
(* JavaScript runs every callback to completion, so one action is one      *)
(* synchronous run of code between two awaits.  A streamGraph invocation   *)
(* is a task; it is suspended either at `await fetch` ("fetching") or at   *)
(* `await reader.read()` ("reading").  The operations the hook exports     *)
(* (streamGraph, abort) may be called by its environment in any order;     *)
(* handleSendMessage is the one caller inside the repository and guards    *)
(* the call with isStreaming.                                              *)
(***************************************************************************)
EXTENDS Integers, Sequences, FiniteSets, TLC

\* ------------------------------------------------------------------ bounds
\* streamGraph invocations that have not returned yet, at any one time
MaxTasks == 2
\* stream records delivered in one behaviour of the application
MaxEvents == 4
\* stream records delivered in one behaviour of the hook under any caller
MaxHookEvents == 2
\* mergeNodes checked on its own: lengths of the argument lists
MaxExistingLen == 3
MaxUpdatedLen == 2
\* framing: pieces of text the model writes, frames in a response body, and
\* the longest chunk a read delivers
MaxPieces == 3
MaxFrames == 2
MaxChunkLen == 3
\* layout checked on its own: nodes and edges of the graph
MaxLayoutNodes == 4
MaxLayoutEdges == 3
\* the islands of a flowchart given to layout
MaxIslands == 3
\* the saves of one editing session
MaxSaves == 3

\* ------------------------------------------------------------- data model
\* Node ids and node payloads (data.label/status/color taken as one value).
\* Payload 0 is what the graph holds before a turn; the stream sends 1 or 2.
NodeIds == {1, 2}
StreamData == {1, 2}
MergeIds == {1, 2, 3, 4}
MergeData == {1, 2}

Node(i, d) == [id |-> i, data |-> d]
NoNode == Node(0, 0)

\* Edge records; markerEnd.type is the one field the client rewrites.
Edge(e, s, t, m) == [id |-> e, source |-> s, target |-> t, markerEnd |-> m]
E12 == Edge("e1-2", 1, 2, "ArrowClosed")
E21 == Edge("e2-1", 2, 1, "arrowclosed")

\* String.prototype.toLowerCase on the marker types the server prompt uses
toLowerCase(s) == IF s = "ArrowClosed" THEN "arrowclosed" ELSE s

\* edges.map(edge => ({...edge, markerEnd: {...markerEnd, type: lower(type)}}))
NormalizeEdges(es) ==
    [i \in 1..Len(es) |-> [es[i] EXCEPT !.markerEnd = toLowerCase(es[i].markerEnd)]]

SeqIds(s) == {s[i].id : i \in 1..Len(s)}
UniqueIds(s) == \A i, j \in 1..Len(s) : s[i].id = s[j].id => i = j

\* ------------------------------------------------------------- mergeNodes
\* A JavaScript Map as the sequence of its values in key insertion order.
\* Map.prototype.set: an existing key keeps its place and takes the new value.
MapSet(m, n) ==
    IF \E i \in 1..Len(m) : m[i].id = n.id
    THEN [i \in 1..Len(m) |-> IF m[i].id = n.id THEN n ELSE m[i]]
    ELSE Append(m, n)

\* new Map(updatedNodes.map(n => [n.id, n]))
RECURSIVE MapOf(_)
MapOf(s) == IF s = <<>> THEN <<>> ELSE MapSet(MapOf(SubSeq(s, 1, Len(s) - 1)), s[Len(s)])

MapHas(m, i) == \E k \in 1..Len(m) : m[k].id = i
MapGet(m, i) == m[CHOOSE k \in 1..Len(m) : m[k].id = i]
MapDelete(m, i) == SelectSeq(m, LAMBDA n : n.id # i)

\* nodeIdsToRemove.has(node.id), the test that skips an existing node
SkipExisting(node, nodeIdsToRemove) == node.id \in nodeIdsToRemove

\* The loop over existingNodes: st = [merged, map] after the first k nodes.
RECURSIVE MergeLoop(_, _, _, _)
MergeLoop(existingNodes, k, nodeIdsToRemove, st) ==
    IF k > Len(existingNodes) THEN st
    ELSE LET node == existingNodes[k]
             nxt  == IF SkipExisting(node, nodeIdsToRemove) THEN st
                     ELSE IF MapHas(st.map, node.id)
                          THEN [merged |-> Append(st.merged, MapGet(st.map, node.id)),
                                map    |-> MapDelete(st.map, node.id)]
                          ELSE [merged |-> Append(st.merged, node), map |-> st.map]
         IN  MergeLoop(existingNodes, k + 1, nodeIdsToRemove, nxt)

\* The second loop: every value left in the map is pushed.
AppendRemaining(merged, map, nodeIdsToRemove) == merged \o map

mergeNodes(existingNodes, updatedNodes, nodeIdsToRemove) ==
    LET st == MergeLoop(existingNodes, 1, nodeIdsToRemove,
                        [merged |-> <<>>, map |-> MapOf(updatedNodes)])
    IN  AppendRemaining(st.merged, st.map, nodeIdsToRemove)

\* ---------------------------------------------------------------- state
VARIABLES
    graph,              \* App: the nodes and edges React Flow shows
    streamState,        \* ChatInterface: nodes, removedIds, edges, mode
    isStreaming,        \* useGraphStream: state.isStreaming
    abortControllerRef, \* useGraphStream: the task whose controller the ref holds, 0 = null
    aborted,            \* per task: its AbortController's signal.aborted
    pc,                 \* per task: "idle" (no invocation), "fetching" or "reading"
    existing,           \* per task: currentNodes/currentEdges closed over by its callbacks
    remaining,          \* number of stream records the server may still deliver
    last,               \* the step taken last: operation, task, record, onError called
    mIn, mOut, mPc,     \* mergeNodes on its own: arguments, result, position
    llm,                \* server: the pieces and the characters of result.textStream
    fpos,               \* server: characters of the text stream consumed so far
    fr,                 \* server: currentObject, depths, inString, escapeNext, enqueued records
    fpc,                \* server: "off", "framing", "closed" or "error"
    wire,               \* client: the frames and the characters of the response body
    hk,                 \* useGraphStream reader: position, buffer, parsed records
    il,                 \* inline ChatInterface reader: position, jsonBuffer, braceCount, parsed records
    lIn, lOut, lPc,     \* getLayoutedElements on its own: arguments, result, position
    currentMapId,       \* usePersistence: the id of the map being edited, 0 = null
    saveTimeoutRef,     \* usePersistence: the pending auto-save timer and the id its saveMap closes over
    posts,              \* POST /api/maps requests the server has not handled yet
    responses,          \* responses of POST /api/maps the client has not received yet
    maps,               \* db: the ids of the rows of the maps table
    issued              \* number of saves issued so far

streamVars == <<graph, streamState, isStreaming, abortControllerRef, aborted, pc,
                existing, remaining, last>>
mergeVars == <<mIn, mOut, mPc>>
frameVars == <<llm, fpos, fr, fpc>>
readerVars == <<wire, hk, il>>
layoutVars == <<lIn, lOut, lPc>>
persistVars == <<currentMapId, saveTimeoutRef, posts, responses, maps, issued>>
vars == <<streamVars, mergeVars, frameVars, readerVars, layoutVars, persistVars>>

Tasks == 1..MaxTasks
Running == {"fetching", "reading"}

NoGraph == [nodes |-> <<>>, edges |-> <<>>]
\* The graphs a turn may start from: an empty canvas or a stored map.
InitGraphs ==
    { NoGraph,
      [nodes |-> <<Node(1, 0)>>, edges |-> <<>>],
      [nodes |-> <<Node(1, 0), Node(2, 0)>>, edges |-> <<E21>>] }

\* setStreamState({nodes: [], removedIds: new Set(), edges: [], mode: "create"})
ResetStreamState == [nodes |-> <<>>, removedIds |-> {}, edges |-> <<>>, mode |-> "create"]

\* ------------------------------------------------------- stream records
Ev(type, mode, node, id, edges) ==
    [type |-> type, mode |-> mode, node |-> node, id |-> id, edges |-> edges]
NoEv == Ev("none", "", NoNode, 0, <<>>)
ModeEv(m) == Ev("mode", m, NoNode, 0, <<>>)
NodeEv(n) == Ev("node", "", n, 0, <<>>)
RemoveEv(i) == Ev("remove_node", "", NoNode, i, <<>>)
EdgesEv(es) == Ev("edges", "", NoNode, 0, es)
CompleteEv == Ev("complete", "", NoNode, 0, <<>>)
ErrorEv == Ev("error", "", NoNode, 0, <<>>)

EdgeLists == {<<>>, <<E12>>}
Events ==
    {ModeEv(m) : m \in {"create", "update"}}
    \cup {NodeEv(Node(i, d)) : i \in NodeIds, d \in StreamData}
    \cup {RemoveEv(i) : i \in NodeIds}
    \cup {EdgesEv(es) : es \in EdgeLists}
    \cup {CompleteEv, ErrorEv}

\* The records drawn when the hook is driven by any caller.
HookEvents ==
    {ModeEv("update"), NodeEv(Node(1, 1)), NodeEv(Node(2, 1)), RemoveEv(1),
     EdgesEv(<<E12>>), ErrorEv}

Step(op, t, ev, err) == [op |-> op, task |-> t, ev |-> ev, onError |-> err]

\* ------------------------------------------- ChatInterface hook callbacks
\* Each callback maps (prev stream state, shown graph, the caller's closure
\* cur = currentNodes/currentEdges) to the new stream state and shown graph.

\* onGraphUpdate(nodes, edges): App sets both
onGraphUpdate(nodes, edges) == [nodes |-> nodes, edges |-> edges]

\* prev.edges.length > 0 ? prev.edges : currentEdges
ProgressiveEdges(prev, cur) == IF Len(prev.edges) > 0 THEN prev.edges ELSE cur.edges

onModeSet(prev, g, cur, mode) ==
    [streamState |-> [prev EXCEPT !.mode = mode, !.nodes = <<>>, !.removedIds = {}],
     graph |-> g]

\* const newNodes = [...prev.nodes, node]
AccumulateNode(nodes, node) == Append(nodes, node)

onNodeAdded(prev, g, cur, node) ==
    LET newNodes == AccumulateNode(prev.nodes, node)
    IN  [streamState |-> [prev EXCEPT !.nodes = newNodes],
         graph |-> IF prev.mode = "create"
                   THEN onGraphUpdate(newNodes, prev.edges)
                   ELSE onGraphUpdate(mergeNodes(cur.nodes, newNodes, prev.removedIds),
                                      ProgressiveEdges(prev, cur))]

onNodeRemoved(prev, g, cur, nodeId) ==
    LET newRemovedIds == prev.removedIds \cup {nodeId}
    IN  [streamState |-> [prev EXCEPT !.removedIds = newRemovedIds],
         graph |-> onGraphUpdate(mergeNodes(cur.nodes, prev.nodes, newRemovedIds),
                                 ProgressiveEdges(prev, cur))]

\* the guard left out: an empty list replaces the edges in either mode
PreserveEdgesNever(prev, edges) == FALSE

\* prev.mode === "update" && edges.length === 0
PreserveEdges(prev, edges) == prev.mode = "update" /\ Len(edges) = 0

onEdgesSet(prev, g, cur, edges) ==
    IF PreserveEdges(prev, edges)
    THEN [streamState |-> prev, graph |-> g]
    ELSE [streamState |-> [prev EXCEPT !.edges = edges],
          graph |-> IF prev.mode = "create"
                    THEN onGraphUpdate(prev.nodes, edges)
                    ELSE onGraphUpdate(mergeNodes(cur.nodes, prev.nodes, prev.removedIds),
                                       edges)]

\* The switch of the read loop.  "complete" only schedules a fitView; the
\* Error thrown for "error" is caught by the catch around JSON.parse, which
\* logs a warning, and the loop goes on with the next line.
Dispatch(prev, g, cur, ev) ==
    CASE ev.type = "mode"        -> onModeSet(prev, g, cur, ev.mode)
      [] ev.type = "node"        -> onNodeAdded(prev, g, cur, ev.node)
      [] ev.type = "edges"       -> onEdgesSet(prev, g, cur, NormalizeEdges(ev.edges))
      [] ev.type = "remove_node" -> onNodeRemoved(prev, g, cur, ev.id)
      [] ev.type = "complete"    -> [streamState |-> prev, graph |-> g]
      [] ev.type = "error"       -> [streamState |-> prev, graph |-> g]

\* ------------------------------------------------------ useGraphStream
\* the callbacks reading the graph as shown now, not as closed over
CurrentGraphLive(t) == graph

\* The graph the callbacks of task t close over: streamGraph keeps the
\* options object of the render it was called from.
CurrentGraph(t) == existing[t]

\* the name test left out: every rejection is reported
ReportsErrorAlways(errorName) == TRUE

\* (error as Error).name !== "AbortError"
ReportsError(errorName) == errorName # "AbortError"

\* catch and finally of streamGraph for the invocation in slot t, which then
\* is free again; errorName = "none": the loop ended by done, nothing thrown.
\* onError appends an "Error: ..." message to the chat.
Settle(t, op, errorName) ==
    /\ pc' = [pc EXCEPT ![t] = "idle"]
    /\ aborted' = [aborted EXCEPT ![t] = FALSE]
    /\ existing' = [existing EXCEPT ![t] = NoGraph]
    /\ isStreaming' = FALSE
    /\ abortControllerRef' = 0
    /\ last' = Step(op, t, NoEv, errorName # "none" /\ ReportsError(errorName))
    /\ UNCHANGED <<graph, streamState, remaining, mergeVars, frameVars, readerVars, layoutVars, persistVars>>

\* A rejected await resumes in a microtask, and microtasks run before the next
\* task of the event loop: while an aborted invocation has not resumed, no
\* network result and no form submit is delivered.  Code that runs on in the
\* same job (further streamGraph or abort calls) is not held back.
RejectionPending == \E u \in Tasks : pc[u] \in Running /\ aborted[u]

\* The slot a new invocation takes: the lowest one that is free.
FreeSlot(t) == pc[t] = "idle" /\ \A u \in Tasks : u < t => pc[u] # "idle"

\* `if (abortControllerRef.current) abortControllerRef.current.abort()`
AbortExisting(ref, flags) == IF ref # 0 THEN [flags EXCEPT ![ref] = TRUE] ELSE flags

\* streamGraph up to `await fetch`
StreamGraphCall(t) ==
    /\ FreeSlot(t)
    /\ aborted' = AbortExisting(abortControllerRef, aborted)
    /\ abortControllerRef' = t
    /\ isStreaming' = TRUE
    /\ pc' = [pc EXCEPT ![t] = "fetching"]
    /\ existing' = [existing EXCEPT ![t] = graph]
    /\ last' = Step("streamGraph", t, NoEv, FALSE)
    /\ UNCHANGED <<graph, remaining, mergeVars, frameVars, readerVars, layoutVars, persistVars>>

\* ChatInterface.handleSendMessage up to `await streamGraph`
handleSendMessage(t) ==
    /\ ~RejectionPending
    /\ ~isStreaming
    /\ streamState' = ResetStreamState
    /\ StreamGraphCall(t)

\* streamGraph called by another user of the hook
streamGraph(t) ==
    /\ streamState' = streamState
    /\ StreamGraphCall(t)

\* abort()
abort ==
    /\ abortControllerRef # 0
    /\ aborted' = [aborted EXCEPT ![abortControllerRef] = TRUE]
    /\ last' = Step("abort", abortControllerRef, NoEv, FALSE)
    /\ UNCHANGED <<graph, streamState, isStreaming, abortControllerRef, pc, existing,
                   remaining, mergeVars, frameVars, readerVars, layoutVars, persistVars>>

\* fetch resolves with an ok response that has a body
FetchResponse(t) ==
    /\ ~RejectionPending
    /\ pc[t] = "fetching" /\ ~aborted[t]
    /\ pc' = [pc EXCEPT ![t] = "reading"]
    /\ last' = Step("response", t, NoEv, FALSE)
    /\ UNCHANGED <<graph, streamState, isStreaming, abortControllerRef, aborted, existing,
                   remaining, mergeVars, frameVars, readerVars, layoutVars, persistVars>>

\* fetch rejects, the response is not ok, or it has no body
FetchError(t) ==
    /\ ~RejectionPending
    /\ pc[t] = "fetching" /\ ~aborted[t]
    /\ Settle(t, "fetchError", "Error")

\* reader.read() resolves with a chunk holding one record
ReadEvent(t, ev) ==
    /\ ~RejectionPending
    /\ pc[t] = "reading" /\ ~aborted[t]
    /\ remaining > 0
    /\ LET r == Dispatch(streamState, graph, CurrentGraph(t), ev)
       IN  /\ streamState' = r.streamState
           /\ graph' = r.graph
    /\ remaining' = remaining - 1
    /\ last' = Step("event", t, ev, FALSE)
    /\ UNCHANGED <<isStreaming, abortControllerRef, aborted, pc, existing, mergeVars, frameVars, readerVars, layoutVars, persistVars>>

\* reader.read() resolves with done
ReadDone(t) ==
    /\ ~RejectionPending
    /\ pc[t] = "reading" /\ ~aborted[t]
    /\ Settle(t, "done", "none")

\* reader.read() rejects: the transport failed
ReadError(t) ==
    /\ ~RejectionPending
    /\ pc[t] = "reading" /\ ~aborted[t]
    /\ Settle(t, "readError", "TypeError")

\* the pending await of an aborted invocation rejects with an AbortError
AbortRejection(t) ==
    /\ pc[t] \in Running /\ aborted[t]
    /\ Settle(t, "aborted", "AbortError")

\* App.handleDeleteNode: the user deletes a node that is shown, at any time
handleDeleteNode(nodeId) ==
    /\ ~RejectionPending
    /\ nodeId \in SeqIds(graph.nodes)
    /\ graph' = [nodes |-> SelectSeq(graph.nodes, LAMBDA n : n.id # nodeId),
                 edges |-> SelectSeq(graph.edges,
                               LAMBDA e : e.source # nodeId /\ e.target # nodeId)]
    /\ last' = Step("deleteNode", 0, NoEv, FALSE)
    /\ UNCHANGED <<streamState, isStreaming, abortControllerRef, aborted, pc, existing,
                   remaining, mergeVars, frameVars, readerVars, layoutVars, persistVars>>

\* ------------------------------------------------------------ text
\* Text is a sequence of characters.  The characters are the ones the JSON
\* grammar, the framing loop and the "data: " prefix tell apart, a digit and
\* two letters.
Chars == {"{", "}", "[", "]", "\"", "\\", ":", ",", "1", "a", "d", "t", " ", "\n"}

IsWhitespace(c) == c \in {" ", "\n"}

\* String.prototype.trim
RECURSIVE trimStart(_)
trimStart(s) ==
    IF s # <<>> /\ IsWhitespace(s[1]) THEN trimStart(Tail(s)) ELSE s
RECURSIVE trimEnd(_)
trimEnd(s) ==
    IF s # <<>> /\ IsWhitespace(s[Len(s)]) THEN trimEnd(SubSeq(s, 1, Len(s) - 1)) ELSE s
trim(s) == trimEnd(trimStart(s))

\* String.prototype.startsWith
startsWith(s, prefix) ==
    Len(s) >= Len(prefix) /\ SubSeq(s, 1, Len(prefix)) = prefix

\* String.prototype.slice(n)
slice(s, n) == SubSeq(s, n + 1, Len(s))

\* Concatenation of a sequence of texts
RECURSIVE Concat(_)
Concat(ss) == IF ss = <<>> THEN <<>> ELSE Head(ss) \o Concat(Tail(ss))

\* ------------------------------------------------------- JSON.parse
\* The JSON grammar over Chars as a recursive descent recognizer.  Each
\* Parse operator takes the text and the index it starts at and gives the
\* index after what it recognized, or 0 where JSON.parse throws a SyntaxError.
RECURSIVE SkipWs(_, _)
SkipWs(s, i) == IF i <= Len(s) /\ IsWhitespace(s[i]) THEN SkipWs(s, i + 1) ELSE i

\* the characters after the opening quote: up to the closing quote; a
\* backslash must start an escape, a raw line break is not allowed
RECURSIVE ParseStringBody(_, _)
ParseStringBody(s, j) ==
    IF j > Len(s) THEN 0
    ELSE IF s[j] = "\"" THEN j + 1
    ELSE IF s[j] = "\\"
         THEN IF j + 1 <= Len(s) /\ s[j + 1] \in {"\"", "\\", "t"}
              THEN ParseStringBody(s, j + 2) ELSE 0
    ELSE IF s[j] = "\n" THEN 0
    ELSE ParseStringBody(s, j + 1)

ParseString(s, i) ==
    IF i <= Len(s) /\ s[i] = "\"" THEN ParseStringBody(s, i + 1) ELSE 0

RECURSIVE ParseNumber(_, _)
ParseNumber(s, i) ==
    IF i <= Len(s) /\ s[i] = "1" THEN ParseNumber(s, i + 1) ELSE i

RECURSIVE ParseValue(_, _)
RECURSIVE ParseElements(_, _)
RECURSIVE ParseMembers(_, _)

\* after "[" or ",": a value, then "," and more elements, or "]"
ParseElements(s, i) ==
    LET j == ParseValue(s, i)
        k == SkipWs(s, j)
    IN  IF j = 0 \/ k > Len(s) THEN 0
        ELSE IF s[k] = "]" THEN k + 1
        ELSE IF s[k] = "," THEN ParseElements(s, k + 1)
        ELSE 0

\* after "{" or ",": a string, ":", a value, then "," and more members, or "}"
ParseMembers(s, i) ==
    LET j == ParseString(s, SkipWs(s, i))
        c == SkipWs(s, j)
    IN  IF j = 0 \/ c > Len(s) \/ s[c] # ":" THEN 0
        ELSE LET v == ParseValue(s, c + 1)
                 k == SkipWs(s, v)
             IN  IF v = 0 \/ k > Len(s) THEN 0
                 ELSE IF s[k] = "}" THEN k + 1
                 ELSE IF s[k] = "," THEN ParseMembers(s, k + 1)
                 ELSE 0

ParseValue(s, i) ==
    LET j == SkipWs(s, i)
    IN  IF j > Len(s) THEN 0
        ELSE IF s[j] = "\"" THEN ParseString(s, j)
        ELSE IF s[j] = "1" THEN ParseNumber(s, j)
        ELSE IF s[j] = "["
             THEN LET k == SkipWs(s, j + 1)
                  IN  IF k <= Len(s) /\ s[k] = "]" THEN k + 1 ELSE ParseElements(s, j + 1)
        ELSE IF s[j] = "{"
             THEN LET k == SkipWs(s, j + 1)
                  IN  IF k <= Len(s) /\ s[k] = "}" THEN k + 1 ELSE ParseMembers(s, j + 1)
        ELSE 0

\* JSON.parse(s) returns: one value and nothing but whitespace around it
JSONParses(s) ==
    LET j == ParseValue(s, 1)
    IN  j # 0 /\ SkipWs(s, j) > Len(s)

\* ------------------------------------- server: /api/generate-map framing
\* What the model may write to the text stream, piece by piece.
RecPlain  == <<"{", "\"", "a", "\"", ":", "1", "}">>
RecBrace  == <<"{", "\"", "a", "\"", ":", "\"", "}", "\"", "}">>
RecQuote  == <<"{", "\"", "a", "\"", ":", "\"", "\\", "\"", "\"", "}">>
RecNested == <<"{", "\"", "t", "\"", ":", "[", "{", "}", "]", "}">>
BadSyntax == <<"{", "a", "}">>
Truncated == <<"{", "\"", "a">>
StrayText == <<"a">>
LineBreak == <<"\n">>

Records == {RecPlain, RecBrace, RecQuote, RecNested}
Pieces == Records \cup {BadSyntax, Truncated, StrayText, LineBreak}

\* currentObject = "", braceDepth = 0, bracketDepth = 0, inString = false,
\* escapeNext = false
ResetFraming(out) ==
    [currentObject |-> <<>>, braceDepth |-> 0, bracketDepth |-> 0,
     inString |-> FALSE, escapeNext |-> FALSE, out |-> out]

\* char === '"' && !escapeNext
TogglesString(char, escapeNext) == char = "\"" /\ ~escapeNext

\* the nesting counted inside strings as well
CountsNestingAlways(inString) == TRUE

\* if (!inString) { ... depth updates and the completeness test ... }
CountsNesting(inString) == ~inString

\* The body of the loop over the characters of a chunk, for one character.
FrameChar(st, char) ==
    LET currentObject == Append(st.currentObject, char)
        inString == IF TogglesString(char, st.escapeNext) THEN ~st.inString ELSE st.inString
        escapeNext == char = "\\" /\ ~st.escapeNext
        counted == CountsNesting(inString)
        braceDepth == IF ~counted THEN st.braceDepth
                      ELSE IF char = "{" THEN st.braceDepth + 1
                      ELSE IF char = "}" THEN st.braceDepth - 1
                      ELSE st.braceDepth
        bracketDepth == IF ~counted THEN st.bracketDepth
                        ELSE IF char = "[" THEN st.bracketDepth + 1
                        ELSE IF char = "]" THEN st.bracketDepth - 1
                        ELSE st.bracketDepth
        trimmed == trim(currentObject)
        go == [currentObject |-> currentObject, braceDepth |-> braceDepth,
               bracketDepth |-> bracketDepth, inString |-> inString,
               escapeNext |-> escapeNext, out |-> st.out]
    IN  IF counted /\ braceDepth = 0 /\ bracketDepth = 0 /\ trimmed # <<>>
        THEN IF startsWith(trimmed, <<"{">>)
             THEN IF JSONParses(trimmed)
                  THEN ResetFraming(Append(st.out, trimmed))
                  ELSE ResetFraming(st.out)
             ELSE go
        ELSE go

\* for (let i = 0; i < chunk.length; i++) { ... }
RECURSIVE FrameChars(_, _)
FrameChars(st, chunk) ==
    IF chunk = <<>> THEN st ELSE FrameChars(FrameChar(st, Head(chunk)), Tail(chunk))

\* "Process any remaining buffer", after the text stream has ended
FinalBuffer(st) ==
    LET trimmed == trim(st.currentObject)
    IN  IF trimmed # <<>> /\ startsWith(trimmed, <<"{">>) /\ JSONParses(trimmed)
        THEN [st EXCEPT !.out = Append(st.out, trimmed)]
        ELSE st

\* one chunk of result.textStream of n characters
FrameChunk(n) ==
    /\ fpc = "framing"
    /\ fpos + n <= Len(llm.text)
    /\ fr' = FrameChars(fr, SubSeq(llm.text, fpos + 1, fpos + n))
    /\ fpos' = fpos + n
    /\ UNCHANGED <<llm, fpc, streamVars, mergeVars, readerVars, layoutVars, persistVars>>

\* the text stream ends: remaining buffer, {"type":"complete"}, close
FrameEnd ==
    /\ fpc = "framing"
    /\ fpos = Len(llm.text)
    /\ fr' = FinalBuffer(fr)
    /\ fpc' = "closed"
    /\ UNCHANGED <<llm, fpos, streamVars, mergeVars, readerVars, layoutVars, persistVars>>

\* the text stream rejects: {"type":"error","message":...}, close
TextStreamError ==
    /\ fpc = "framing"
    /\ fpc' = "error"
    /\ UNCHANGED <<llm, fpos, fr, streamVars, mergeVars, readerVars, layoutVars, persistVars>>

\* ------------------------------------------- client: reading the response
\* `data: ${trimmed}\n\n`
DataPrefix == <<"d", "a", "t", "a", ":", " ">>
SseFrame(payload) == DataPrefix \o payload \o <<"\n", "\n">>

RecA == <<"{", "\"", "a", "\"", ":", "1", "}">>
RecT == <<"{", "\"", "t", "\"", ":", "1", "}">>
CutShort == <<"{", "\"", "a", "\"", ":">>
Payloads == {RecA, RecT, BadSyntax, CutShort}

\* String.prototype.split("\n")
RECURSIVE split(_, _)
split(s, cur) ==
    IF s = <<>> THEN <<cur>>
    ELSE IF Head(s) = "\n" THEN <<cur>> \o split(Tail(s), <<>>)
    ELSE split(Tail(s), Append(cur, Head(s)))

\* useGraphStream: the body of `for (const line of lines)`; events are the
\* records JSON.parse returned, which then go through the switch
HookLine(events, line) ==
    IF ~startsWith(line, DataPrefix) THEN events
    ELSE LET jsonStr == trim(slice(line, 6))
         IN  IF jsonStr = <<>> THEN events
             ELSE IF JSONParses(jsonStr) THEN Append(events, jsonStr)
             ELSE events

RECURSIVE HookLines(_, _)
HookLines(events, lines) ==
    IF lines = <<>> THEN events ELSE HookLines(HookLine(events, Head(lines)), Tail(lines))

\* useGraphStream: one `reader.read()` result that is not done
HookChunk(st, chunk) ==
    LET buffer == st.buffer \o chunk
        lines == split(buffer, <<>>)
    IN  [pos |-> st.pos + Len(chunk),
         buffer |-> lines[Len(lines)],
         events |-> HookLines(st.events, SubSeq(lines, 1, Len(lines) - 1))]

\* inline reader: braceCount after `for (const char of content)`
RECURSIVE CountBraces(_, _)
CountBraces(braceCount, content) ==
    IF content = <<>> THEN braceCount
    ELSE CountBraces(IF Head(content) \in {"{", "["} THEN braceCount + 1
                     ELSE IF Head(content) \in {"}", "]"} THEN braceCount - 1
                     ELSE braceCount,
                     Tail(content))

\* inline reader: the body of `for (const line of lines)`
InlineLine(st, line) ==
    LET content == IF startsWith(line, DataPrefix) THEN slice(line, 6) ELSE line
    IN  IF trim(content) = <<>> THEN st
        ELSE IF st.jsonBuffer = <<>> /\ ~startsWith(content, <<"{">>) THEN st
        ELSE LET jsonBuffer == st.jsonBuffer \o content
                 braceCount == CountBraces(st.braceCount, content)
             IN  IF braceCount # 0
                 THEN [st EXCEPT !.jsonBuffer = jsonBuffer, !.braceCount = braceCount]
                 ELSE [st EXCEPT !.jsonBuffer = <<>>, !.braceCount = 0,
                                 !.events = IF JSONParses(jsonBuffer)
                                            THEN Append(st.events, jsonBuffer)
                                            ELSE st.events]

RECURSIVE InlineLines(_, _)
InlineLines(st, lines) ==
    IF lines = <<>> THEN st ELSE InlineLines(InlineLine(st, Head(lines)), Tail(lines))

\* inline reader: one `reader.read()` result that is not done
InlineChunk(st, chunk) ==
    [InlineLines(st, split(chunk, <<>>)) EXCEPT !.pos = st.pos + Len(chunk)]

HookStart == [pos |-> 0, buffer |-> <<>>, events |-> <<>>]
InlineStart == [pos |-> 0, jsonBuffer |-> <<>>, braceCount |-> 0, events |-> <<>>]

\* the reader of useGraphStream takes the next n characters of the body
HookRead(n) ==
    /\ wire.text # <<>>
    /\ hk.pos + n <= Len(wire.text)
    /\ hk' = HookChunk(hk, SubSeq(wire.text, hk.pos + 1, hk.pos + n))
    /\ UNCHANGED <<wire, il, streamVars, mergeVars, frameVars, layoutVars, persistVars>>

\* the inline reader takes the next n characters of the body
InlineRead(n) ==
    /\ wire.text # <<>>
    /\ il.pos + n <= Len(wire.text)
    /\ il' = InlineChunk(il, SubSeq(wire.text, il.pos + 1, il.pos + n))
    /\ UNCHANGED <<wire, hk, streamVars, mergeVars, frameVars, layoutVars, persistVars>>

\* --------------------------------------------- utils/autoLayout: layout
\* Coordinates are kept in twelfths of a pixel, so that the halves of the
\* widths and the means of the merge rule are whole numbers.
Unit == 12
Px(n) == n * Unit

\* an id that is in no Map: Map.prototype.get gives undefined
Undefined == 0
\* an id no node carries, for edges that dangle
UnknownId == 9

LNode(id, type, x, y) ==
    [id |-> id, type |-> type, position |-> [x |-> x, y |-> y], data |-> [label |-> id]]
LEdge(source, target, type) == [source |-> source, target |-> target, type |-> type]

\* LAYOUT_PRESETS[0], the params App.handleAutoLayout passes
LAYOUT_PRESETS ==
    [centerX |-> Px(300), verticalGap |-> Px(60), branchOffset |-> Px(200),
     subgraphGap |-> Px(300)]

\* a call without params: no option is defined, the name resolves to "Default"
NoParams == [name |-> "Default"]

\* `params?.centerX ?? CENTER_X` and the like
ResolveParams(params) ==
    [centerX      |-> IF "centerX" \in DOMAIN params THEN params.centerX ELSE Px(300),
     verticalGap  |-> IF "verticalGap" \in DOMAIN params THEN params.verticalGap ELSE Px(60),
     branchOffset |-> IF "branchOffset" \in DOMAIN params THEN params.branchOffset ELSE Px(200),
     subgraphGap  |-> IF "subgraphGap" \in DOMAIN params THEN params.subgraphGap ELSE Px(150)]

\* NODE_WIDTHS[type || "default"] ?? 180; type "" stands for an absent type
getNodeWidth(type) ==
    LET key == IF type = "" THEN "default" ELSE type
    IN  CASE key = "default" -> Px(150)
          [] key = "diamond" -> Px(160)
          [] key = "oval"    -> Px(160)
          [] OTHER           -> Px(180)

\* every node taken to be as tall as a rectangle
getNodeHeightFlat(type) == Px(50)

\* NODE_HEIGHTS[type || "default"] ?? 50
getNodeHeight(type) ==
    LET key == IF type = "" THEN "default" ELSE type
    IN  CASE key = "default" -> Px(50)
          [] key = "diamond" -> Px(160)
          [] key = "oval"    -> Px(45)
          [] OTHER           -> Px(50)

Abs(x) == IF x < 0 THEN 0 - x ELSE x
Max(a, b) == IF a >= b THEN a ELSE b
MaxOf(S) == CHOOSE m \in S : \A x \in S : x <= m
RECURSIVE Sum(_)
Sum(xs) == IF xs = <<>> THEN 0 ELSE Head(xs) + Sum(Tail(xs))

\* nodes.find(n => n.id === id) as an index, 0 when there is none
IndexOfId(nodes, id) ==
    IF \E k \in 1..Len(nodes) : nodes[k].id = id
    THEN CHOOSE k \in 1..Len(nodes) :
            nodes[k].id = id /\ \A j \in 1..(k - 1) : nodes[j].id # id
    ELSE 0

\* the comparison not strict: an edge between nodes of one height loops back
isLoopBackOrLevel(edge, nodes) ==
    LET sourceNode == IndexOfId(nodes, edge.source)
        targetNode == IndexOfId(nodes, edge.target)
    IN  IF sourceNode = 0 \/ targetNode = 0 THEN FALSE
        ELSE nodes[targetNode].position.y <= nodes[sourceNode].position.y

isLoopBack(edge, nodes) ==
    LET sourceNode == IndexOfId(nodes, edge.source)
        targetNode == IndexOfId(nodes, edge.target)
    IN  IF sourceNode = 0 \/ targetNode = 0 THEN FALSE
        ELSE nodes[targetNode].position.y < nodes[sourceNode].position.y

\* the filter of forwardEdges
IsForward(e, nodes) == e.type # "selfConnecting" /\ ~isLoopBack(e, nodes)

ForwardEdges(nodes, edges) == SelectSeq(edges, LAMBDA e : IsForward(e, nodes))

\* childrenOf.get(id) || [] and parentOf.get(id) || []
ChildrenOf(forwardEdges, id) ==
    LET es == SelectSeq(forwardEdges, LAMBDA e : e.source = id)
    IN  [k \in 1..Len(es) |-> es[k].target]
ParentOf(forwardEdges, id) ==
    LET es == SelectSeq(forwardEdges, LAMBDA e : e.target = id)
    IN  [k \in 1..Len(es) |-> es[k].source]

\* findSubgraphs.  The Map `parent` as a function on every key it is asked
\* for: the node ids map to themselves, every other key to undefined.
InitParent(nodes, edges) ==
    [k \in SeqIds(nodes) \cup {edges[i].source : i \in 1..Len(edges)}
           \cup {edges[i].target : i \in 1..Len(edges)} \cup {Undefined}
       |-> IF k \in SeqIds(nodes) THEN k ELSE Undefined]

\* find(id), with the path compression it does: the Map after it, and the root
RECURSIVE find(_, _)
find(parent, id) ==
    IF parent[id] # id
    THEN LET r == find(parent, parent[id])
         IN  [parent |-> [r.parent EXCEPT ![id] = r.root], root |-> r.root]
    ELSE [parent |-> parent, root |-> parent[id]]

union(parent, a, b) ==
    LET rootA == find(parent, a)
        rootB == find(rootA.parent, b)
    IN  IF rootA.root # rootB.root
        THEN [rootB.parent EXCEPT ![rootA.root] = rootB.root]
        ELSE rootB.parent

\* for (const edge of edges) union(edge.source, edge.target)
RECURSIVE UnionEdges(_, _)
UnionEdges(parent, edges) ==
    IF edges = <<>> THEN parent
    ELSE UnionEdges(union(parent, Head(edges).source, Head(edges).target), Tail(edges))

\* for (const node of nodes) find(node.id): the roots, node by node
RECURSIVE GroupRoots(_, _)
GroupRoots(parent, nodes) ==
    IF nodes = <<>> THEN <<>>
    ELSE LET r == find(parent, Head(nodes).id)
         IN  <<r.root>> \o GroupRoots(r.parent, Tail(nodes))

\* Array.from(groups.values()): the groups in the order their first node has
findSubgraphs(nodes, edges) ==
    LET roots == GroupRoots(UnionEdges(InitParent(nodes, edges), edges), nodes)
        firsts == SelectSeq([k \in 1..Len(nodes) |-> k],
                            LAMBDA k : \A j \in 1..(k - 1) : roots[j] # roots[k])
    IN  [i \in 1..Len(firsts) |->
            {nodes[j].id : j \in {j \in 1..Len(nodes) : roots[j] = roots[firsts[i]]}}]

\* nodes.find(n => !allTargets.has(n.id)) as an index, 0 when there is none
StartNode(nodes, edges) ==
    LET allTargets == {edges[i].target : i \in 1..Len(edges)}
    IN  IF \E k \in 1..Len(nodes) : nodes[k].id \notin allTargets
        THEN CHOOSE k \in 1..Len(nodes) :
                /\ nodes[k].id \notin allTargets
                /\ \A j \in 1..(k - 1) : nodes[j].id \in allTargets
        ELSE 0

\* The BFS loop.  nodeLevel is the Map of levels; its keys are the set
\* `visited`, since both are written together.
RECURSIVE BfsLoop(_, _, _, _)
BfsLoop(queue, nodeLevel, forwardEdges, subgraphIds) ==
    IF queue = <<>> THEN nodeLevel
    ELSE LET id == Head(queue).id
             level == Head(queue).level
         IN  IF id \in DOMAIN nodeLevel
             THEN BfsLoop(Tail(queue), nodeLevel, forwardEdges, subgraphIds)
             ELSE LET visited == DOMAIN nodeLevel \cup {id}
                      children == SelectSeq(ChildrenOf(forwardEdges, id),
                                            LAMBDA c : c \in subgraphIds)
                      fresh == SelectSeq(children, LAMBDA c : c \notin visited)
                  IN  BfsLoop(Tail(queue)
                                \o [k \in 1..Len(fresh) |-> [id |-> fresh[k], level |-> level + 1]],
                              [i \in visited |-> IF i = id THEN level ELSE nodeLevel[i]],
                              forwardEdges, subgraphIds)

\* nodeLevel.get(node.id) ?? 0
LevelOf(nodeLevel, id) == IF id \in DOMAIN nodeLevel THEN nodeLevel[id] ELSE 0

\* the group built with unshift: the nodes of a level in reverse array order
LevelNodesReversed(nodes, nodeLevel, level) ==
    LET group == SelectSeq(nodes, LAMBDA n : LevelOf(nodeLevel, n.id) = level)
    IN  [k \in 1..Len(group) |-> group[Len(group) + 1 - k]]

\* levelNodes.get(level) || []
LevelNodes(nodes, nodeLevel, level) ==
    SelectSeq(nodes, LAMBDA n : LevelOf(nodeLevel, n.id) = level)

\* levelY.get(level): cumulative heights of the levels above plus the gaps
RECURSIVE LevelY(_, _, _, _)
LevelY(nodes, nodeLevel, verticalGap, level) ==
    IF level = 0 THEN 0
    ELSE LET above == LevelNodes(nodes, nodeLevel, level - 1)
             maxHeightAtLevel ==
                 MaxOf({0} \cup {getNodeHeight(above[k].type) : k \in 1..Len(above)})
         IN  LevelY(nodes, nodeLevel, verticalGap, level - 1) + maxHeightAtLevel + verticalGap

\* the half width left out: the top-left corner put on the center line
CenteredXLeft(centerX, nodeWidth) == centerX

\* the stored x of a node whose visual center is centerX: `centerX - nodeWidth / 2`
CenteredX(centerX, nodeWidth) == centerX - nodeWidth \div 2

\* The callback of nodes.map for one node: its x, its visual center and y.
\* nodePositions is the Map of the visual centers of the nodes placed so far.
PlaceNode(node, nodes, nodeLevel, nodePositions, forwardEdges, subgraphIds, centerX, verticalGap, branchOffset) ==
    LET level == LevelOf(nodeLevel, node.id)
        nodesAtLevel == LevelNodes(nodes, nodeLevel, level)
        nodeIndex == (CHOOSE k \in 1..Len(nodesAtLevel) : nodesAtLevel[k] = node) - 1
        nodeCount == Len(nodesAtLevel)
        nodeWidth == getNodeWidth(node.type)
        parentInSubgraph == SelectSeq(ParentOf(forwardEdges, node.id),
                                      LAMBDA q : q \in subgraphIds)
        parentXs == LET known == SelectSeq(parentInSubgraph,
                                           LAMBDA q : q \in DOMAIN nodePositions)
                    IN  [k \in 1..Len(known) |-> nodePositions[known[k]]]
        visualCenterX ==
            IF nodeCount = 1
            THEN IF Len(parentInSubgraph) = 1
                 THEN IF /\ parentInSubgraph[1] \in DOMAIN nodePositions
                         /\ Abs(nodePositions[parentInSubgraph[1]] - centerX) > Px(50)
                      THEN nodePositions[parentInSubgraph[1]]
                      ELSE centerX
                 ELSE IF Len(parentInSubgraph) > 1
                      THEN IF Len(parentXs) > 0
                           THEN Sum(parentXs) \div Len(parentXs)
                           ELSE centerX
                      ELSE centerX
            ELSE IF nodeCount = 2
                 THEN IF nodeIndex = 0 THEN centerX - branchOffset
                      ELSE centerX + branchOffset
                 ELSE centerX - ((nodeCount - 1) * branchOffset) \div 2
                          + nodeIndex * branchOffset
    IN  [x |-> CenteredX(visualCenterX, nodeWidth),
         visualCenterX |-> visualCenterX,
         y |-> LevelY(nodes, nodeLevel, verticalGap, level)]

\* nodes.map(...) from node k on
RECURSIVE PlaceNodes(_, _, _, _, _, _, _, _, _)
PlaceNodes(k, nodes, nodeLevel, nodePositions, forwardEdges, subgraphIds, centerX, verticalGap, branchOffset) ==
    IF k > Len(nodes) THEN <<>>
    ELSE LET q == PlaceNode(nodes[k], nodes, nodeLevel, nodePositions, forwardEdges,
                            subgraphIds, centerX, verticalGap, branchOffset)
         IN  <<[nodes[k] EXCEPT !.position = [x |-> q.x, y |-> q.y]]>>
             \o PlaceNodes(k + 1, nodes, nodeLevel,
                           [i \in DOMAIN nodePositions \cup {nodes[k].id} |->
                               IF i = nodes[k].id THEN q.visualCenterX
                               ELSE nodePositions[i]],
                           forwardEdges, subgraphIds, centerX, verticalGap, branchOffset)

\* Math.max(400, (maxNodesAtLevel - 1) * branchOffset + 200)
SubgraphWidth(nodes, nodeLevel, branchOffset) ==
    LET maxNodesAtLevel ==
            MaxOf({1} \cup {Len(LevelNodes(nodes, nodeLevel, LevelOf(nodeLevel, nodes[k].id))) :
                               k \in 1..Len(nodes)})
    IN  Max(Px(400), (maxNodesAtLevel - 1) * branchOffset + Px(200))

\* layoutSubgraph from the BFS on, started at nodes[start]
LayoutFrom(nodes, forwardEdges, start, startX, verticalGap, branchOffset) ==
    LET subgraphIds == SeqIds(nodes)
        nodeLevel == BfsLoop(<<[id |-> nodes[start].id, level |-> 0]>>, <<>>,
                             forwardEdges, subgraphIds)
    IN  [layoutedNodes |-> PlaceNodes(1, nodes, nodeLevel, <<>>, forwardEdges, subgraphIds,
                                      startX, verticalGap, branchOffset),
         width |-> SubgraphWidth(nodes, nodeLevel, branchOffset)]

\* "Fallback: just return original positions shifted"
ShiftedPositions(nodes, startX) ==
    [layoutedNodes |-> [k \in 1..Len(nodes) |->
                           [nodes[k] EXCEPT !.position.x = nodes[k].position.x + startX]],
     width |-> Px(400)]

\* edges are the forward edges inside the island, forwardEdges all of them
layoutSubgraph(nodes, edges, forwardEdges, startX, verticalGap, branchOffset) ==
    IF nodes = <<>> THEN [layoutedNodes |-> <<>>, width |-> 0]
    ELSE LET startNode == StartNode(nodes, edges)
         IN  IF startNode = 0 THEN ShiftedPositions(nodes, startX)
             ELSE LayoutFrom(nodes, forwardEdges, startNode, startX, verticalGap, branchOffset)

\* nodes.filter(n => subgraphNodeIds.has(n.id))
SubgraphNodes(nodes, subgraphNodeIds) == SelectSeq(nodes, LAMBDA n : n.id \in subgraphNodeIds)
\* forwardEdges.filter(e => has(e.source) && has(e.target))
SubgraphEdges(forwardEdges, subgraphNodeIds) ==
    SelectSeq(forwardEdges,
              LAMBDA e : e.source \in subgraphNodeIds /\ e.target \in subgraphNodeIds)

\* the center the k-th island is laid out around, given nextSubgraphStart
SubgraphCenterX(k, params, nextSubgraphStart) ==
    IF k = 1 THEN params.centerX ELSE nextSubgraphStart + Px(200)

\* for (const subgraphNodeIds of subgraphs) from the k-th island on
RECURSIVE LayoutSubgraphs(_, _, _, _, _, _)
LayoutSubgraphs(k, subgraphs, nodes, forwardEdges, params, nextSubgraphStart) ==
    IF k > Len(subgraphs) THEN <<>>
    ELSE LET r == layoutSubgraph(SubgraphNodes(nodes, subgraphs[k]),
                                 SubgraphEdges(forwardEdges, subgraphs[k]),
                                 forwardEdges,
                                 SubgraphCenterX(k, params, nextSubgraphStart),
                                 params.verticalGap, params.branchOffset)
         IN  r.layoutedNodes
             \o LayoutSubgraphs(k + 1, subgraphs, nodes, forwardEdges, params,
                                IF k = 1 THEN nextSubgraphStart
                                ELSE nextSubgraphStart + r.width + params.subgraphGap)

getLayoutedElements(nodes, edges, params) ==
    IF Len(nodes) = 0 THEN [nodes |-> <<>>, edges |-> <<>>]
    ELSE LET forwardEdges == ForwardEdges(nodes, edges)
             subgraphs == findSubgraphs(nodes, forwardEdges)
             resolved == ResolveParams(params)
         IN  [nodes |-> LayoutSubgraphs(1, subgraphs, nodes, forwardEdges, resolved,
                                        resolved.centerX + Px(300)),
              edges |-> edges]

\* the strictly increasing sequences over 1..m of length at most k: one for
\* every set of at most k of the m candidate edges
RECURSIVE IncreasingUpTo(_, _)
IncreasingUpTo(m, k) ==
    IF k = 0 THEN {<<>>}
    ELSE LET shorter == IncreasingUpTo(m, k - 1)
         IN  shorter
             \cup UNION { {Append(q, j) : j \in (IF q = <<>> THEN 1 ELSE q[Len(q)] + 1)..m} :
                          q \in {q \in shorter : Len(q) = k - 1} }

\* The graphs layout is called with: n nodes with ids 1..n in array order,
\* typed by one of the type profiles, at the positions of one of the position
\* profiles, and at most MaxLayoutEdges edges between the ids and UnknownId.
TypeProfiles ==
    { [i \in 1..5 |-> "default"],
      <<"oval", "default", "diamond", "custom", "">> }
\* fresh nodes at (0, 0), or nodes laid out before, one below the other
PositionProfiles ==
    { [i \in 1..5 |-> [x |-> 0, y |-> 0]],
      [i \in 1..5 |-> [x |-> Px(10 * i), y |-> Px(100 * (i - 1))]] }

Min(a, b) == IF a <= b THEN a ELSE b

\* The edges a graph on the ids 1..n may have, in one fixed order: every
\* pair of ids, edges that dangle at the first two ids, and a self-loop that
\* carries the selfConnecting tag.
CandidateEdges(n) ==
    [k \in 1..(n * n) |-> LEdge(((k - 1) \div n) + 1, ((k - 1) % n) + 1, "bezier")]
    \o [a \in 1..Min(n, 2) |-> LEdge(a, UnknownId, "bezier")]
    \o [b \in 1..Min(n, 2) |-> LEdge(UnknownId, b, "bezier")]
    \o [a \in 1..Min(n, 1) |-> LEdge(a, a, "selfConnecting")]

LayoutGraphs(n) ==
    { [nodes |-> [i \in 1..n |-> LNode(i, ty[i], ps[i].x, ps[i].y)],
       edges |-> [i \in 1..Len(q) |-> CandidateEdges(n)[q[i]]],
       params |-> LAYOUT_PRESETS] :
         ty \in TypeProfiles, ps \in PositionProfiles,
         q \in IncreasingUpTo(Len(CandidateEdges(n)), MaxLayoutEdges) }

\* Flowcharts as the editor holds them before the first layout: islands one
\* after the other, every node fresh at (0, 0), ids in array order.  An
\* island is a lone start node, a decision with two branches, a decision
\* with three, or a decision one branch of which joins its sibling.
IslandShapes ==
    { [types |-> <<"oval">>, edges |-> <<>>],
      [types |-> <<"diamond", "default", "default">>,
       edges |-> << <<1, 2>>, <<1, 3>> >>],
      [types |-> <<"diamond", "default", "default", "default">>,
       edges |-> << <<1, 2>>, <<1, 3>>, <<1, 4>> >>],
      [types |-> <<"oval", "diamond", "default", "default">>,
       edges |-> << <<1, 3>>, <<1, 2>>, <<2, 3>>, <<2, 4>> >>] }

\* the islands `shapes` as one graph, the ids continuing after `offset`
RECURSIVE Flowchart(_, _)
Flowchart(shapes, offset) ==
    IF shapes = <<>> THEN [nodes |-> <<>>, edges |-> <<>>]
    ELSE LET h == Head(shapes)
             rest == Flowchart(Tail(shapes), offset + Len(h.types))
         IN  [nodes |-> [i \in 1..Len(h.types) |-> LNode(offset + i, h.types[i], 0, 0)]
                           \o rest.nodes,
              edges |-> [k \in 1..Len(h.edges) |->
                            LEdge(offset + h.edges[k][1], offset + h.edges[k][2], "bezier")]
                           \o rest.edges]

\* The flowcharts of at most MaxIslands islands, laid out with the preset or
\* without params, and the edges of a stream whose nodes have not arrived.
Flowcharts ==
    { [nodes |-> Flowchart(q, 0).nodes, edges |-> Flowchart(q, 0).edges, params |-> ps] :
         q \in UNION {[1..k -> IslandShapes] : k \in 1..MaxIslands},
         ps \in {LAYOUT_PRESETS, NoParams} }
    \cup { [nodes |-> <<>>, edges |-> <<LEdge(1, 2, "bezier")>>, params |-> LAYOUT_PRESETS] }

\* App.handleAutoLayout: getLayoutedElements(nodes, edges, "TB", preset)
LayoutCall ==
    /\ lPc = "call"
    /\ lOut' = getLayoutedElements(lIn.nodes, lIn.edges, lIn.params)
    /\ lPc' = "return"
    /\ UNCHANGED <<lIn, streamVars, mergeVars, frameVars, readerVars, persistVars>>

\* App.handleAutoLayout pressed again: setNodes(layoutedNodes) and
\* setEdges(layoutedEdges) of the press before are the graph it is given
LayoutAgain ==
    /\ lPc = "return"
    /\ lIn' = [lIn EXCEPT !.nodes = lOut.nodes, !.edges = lOut.edges]
    /\ lOut' = getLayoutedElements(lOut.nodes, lOut.edges, lIn.params)
    /\ lPc' = "again"
    /\ UNCHANGED <<streamVars, mergeVars, frameVars, readerVars, persistVars>>

\* ------------------------------------- hooks/usePersistence and db/maps
\* The map in the editor has nodes and is not the initial default node, so
\* that neither saveMap nor the auto-save effect skips it.
NoTimer == [armed |-> FALSE, id |-> 0]

\* generateId(): an id no other row has; the n-th save issued draws id n
generateId(n) == n

\* usePersistence.saveMap up to its `await fetch`: the POST carries the
\* currentMapId of the render that created this saveMap
PostSave(id) ==
    /\ issued < MaxSaves
    /\ issued' = issued + 1
    /\ posts' = posts \cup {[n |-> issued + 1, id |-> id]}

\* App's auto-save effect after nodes or edges changed: autoSave clears the
\* timer and sets a new one around the saveMap of the current render
autoSave ==
    /\ saveTimeoutRef' = [armed |-> TRUE, id |-> currentMapId]
    /\ UNCHANGED <<currentMapId, posts, responses, maps, issued, streamVars, mergeVars,
                   frameVars, readerVars, layoutVars>>

\* the callback of setTimeout in autoSave
AutoSaveTimeout ==
    /\ saveTimeoutRef.armed
    /\ PostSave(saveTimeoutRef.id)
    /\ saveTimeoutRef' = NoTimer
    /\ UNCHANGED <<currentMapId, responses, maps, streamVars, mergeVars, frameVars,
                   readerVars, layoutVars>>

\* App.handleSaveNow: persistence.saveMap(nodes, edges)
handleSaveNow ==
    /\ PostSave(currentMapId)
    /\ UNCHANGED <<currentMapId, saveTimeoutRef, responses, maps, streamVars, mergeVars,
                   frameVars, readerVars, layoutVars>>

\* The server's POST /api/maps with db saveMap(graph, name, id): the row is
\* updated when id names a row, and inserted otherwise, under id or under a
\* generated id when id is null.
PostMaps(req) ==
    LET mapId == IF req.id = 0 THEN generateId(req.n) ELSE req.id
    IN  /\ req \in posts
        /\ posts' = posts \ {req}
        /\ maps' = maps \cup {mapId}
        /\ responses' = responses \cup {[n |-> req.n, id |-> mapId]}
        /\ UNCHANGED <<currentMapId, saveTimeoutRef, issued, streamVars, mergeVars,
                       frameVars, readerVars, layoutVars>>

\* saveMap after its `await fetch`: setCurrentMapId(data.map.id).  A new
\* currentMapId makes a new saveMap and a new autoSave, so the auto-save
\* effect runs again and sets the timer anew.
SaveResponse(resp) ==
    /\ resp \in responses
    /\ responses' = responses \ {resp}
    /\ currentMapId' = resp.id
    /\ saveTimeoutRef' = IF resp.id # currentMapId THEN [armed |-> TRUE, id |-> resp.id]
                         ELSE saveTimeoutRef
    /\ UNCHANGED <<posts, maps, issued, streamVars, mergeVars, frameVars, readerVars,
                   layoutVars>>

\* ------------------------------------------- parts that are not running
NoText == [pieces |-> <<>>, text |-> <<>>]

StreamOff ==
    /\ graph = NoGraph
    /\ streamState = ResetStreamState
    /\ isStreaming = FALSE
    /\ abortControllerRef = 0
    /\ aborted = [t \in Tasks |-> FALSE]
    /\ pc = [t \in Tasks |-> "idle"]
    /\ existing = [t \in Tasks |-> NoGraph]
    /\ remaining = 0
    /\ last = Step("init", 0, NoEv, FALSE)

MergeOff ==
    /\ mIn = [existing |-> <<>>, updated |-> <<>>, removed |-> {}]
    /\ mOut = <<>>
    /\ mPc = "off"

FrameOff ==
    /\ llm = NoText
    /\ fpos = 0
    /\ fr = ResetFraming(<<>>)
    /\ fpc = "off"

ReaderOff ==
    /\ wire = NoText
    /\ hk = HookStart
    /\ il = InlineStart

LayoutOff ==
    /\ lIn = [nodes |-> <<>>, edges |-> <<>>, params |-> LAYOUT_PRESETS]
    /\ lOut = [nodes |-> <<>>, edges |-> <<>>]
    /\ lPc = "off"

\* a map that has not been saved yet, nothing pending
PersistOff ==
    /\ currentMapId = 0
    /\ saveTimeoutRef = NoTimer
    /\ posts = {}
    /\ responses = {}
    /\ maps = {}
    /\ issued = 0

\* -------------------------------------------------- mergeNodes on its own
SeqsUpTo(S, n) == UNION {[1..k -> S] : k \in 0..n}
ExistingLists == {s \in SeqsUpTo({Node(i, 0) : i \in MergeIds}, MaxExistingLen) : UniqueIds(s)}
UpdatedLists == SeqsUpTo({Node(i, d) : i \in MergeIds, d \in MergeData}, MaxUpdatedLen)

MergeCall ==
    /\ mPc = "call"
    /\ mOut' = mergeNodes(mIn.existing, mIn.updated, mIn.removed)
    /\ mPc' = "return"
    /\ UNCHANGED <<mIn, streamVars, frameVars, readerVars, layoutVars, persistVars>>

InitWith(budget) ==
    /\ graph \in InitGraphs
    /\ streamState = ResetStreamState
    /\ isStreaming = FALSE
    /\ abortControllerRef = 0
    /\ aborted = [t \in Tasks |-> FALSE]
    /\ pc = [t \in Tasks |-> "idle"]
    /\ existing = [t \in Tasks |-> NoGraph]
    /\ remaining = budget
    /\ last = Step("init", 0, NoEv, FALSE)
    /\ MergeOff
    /\ FrameOff
    /\ ReaderOff
    /\ LayoutOff
    /\ PersistOff

\* The application as wired: ChatInterface is the only user of the hook, it
\* calls streamGraph from handleSendMessage alone and never calls abort.
Init == InitWith(MaxEvents)

Next ==
    \/ \E t \in Tasks : handleSendMessage(t)
    \/ \E t \in Tasks : FetchResponse(t)
    \/ \E t \in Tasks : FetchError(t)
    \/ \E t \in Tasks, ev \in Events : ReadEvent(t, ev)
    \/ \E t \in Tasks : ReadDone(t)
    \/ \E t \in Tasks : ReadError(t)
    \/ \E nodeId \in NodeIds : handleDeleteNode(nodeId)

Spec == Init /\ [][Next]_vars

\* The hook with any caller: streamGraph and abort are called at any time.
HookInit == InitWith(MaxHookEvents)

HookNext ==
    \/ \E t \in Tasks : handleSendMessage(t)
    \/ \E t \in Tasks : streamGraph(t)
    \/ abort
    \/ \E t \in Tasks : FetchResponse(t)
    \/ \E t \in Tasks : FetchError(t)
    \/ \E t \in Tasks, ev \in HookEvents : ReadEvent(t, ev)
    \/ \E t \in Tasks : ReadDone(t)
    \/ \E t \in Tasks : ReadError(t)
    \/ \E t \in Tasks : AbortRejection(t)

HookSpec == HookInit /\ [][HookNext]_vars

\* mergeNodes applied to every argument triple within the bounds.
MergeInit ==
    /\ StreamOff
    /\ FrameOff
    /\ ReaderOff
    /\ LayoutOff
    /\ PersistOff
    /\ mIn \in [existing : ExistingLists, updated : UpdatedLists, removed : SUBSET MergeIds]
    /\ mOut = <<>>
    /\ mPc = "call"

MergeNext == MergeCall

MergeSpec == MergeInit /\ [][MergeNext]_vars

\* The framing loop of the server on every text within the bounds, cut into
\* chunks in every way.
FrameTexts == {ps \in SeqsUpTo(Pieces, MaxPieces) : ps # <<>>}

FrameInit ==
    /\ StreamOff
    /\ MergeOff
    /\ ReaderOff
    /\ LayoutOff
    /\ PersistOff
    /\ \E ps \in FrameTexts : llm = [pieces |-> ps, text |-> Concat(ps)]
    /\ fpos = 0
    /\ fr = ResetFraming(<<>>)
    /\ fpc = "framing"

FrameNext ==
    \/ \E n \in 1..MaxChunkLen : FrameChunk(n)
    \/ FrameEnd
    \/ TextStreamError

FrameSpec == FrameInit /\ [][FrameNext]_vars

\* The two readers of the client on every response body within the bounds,
\* cut into chunks in every way.
WireFrames == {ps \in SeqsUpTo(Payloads, MaxFrames) : ps # <<>>}

ReaderInit ==
    /\ StreamOff
    /\ MergeOff
    /\ FrameOff
    /\ LayoutOff
    /\ PersistOff
    /\ \E ps \in WireFrames :
          wire = [pieces |-> ps, text |-> Concat([k \in 1..Len(ps) |-> SseFrame(ps[k])])]
    /\ hk = HookStart
    /\ il = InlineStart

ReaderNext ==
    \/ \E n \in 1..MaxChunkLen : HookRead(n)
    \/ \E n \in 1..MaxChunkLen : InlineRead(n)

ReaderSpec == ReaderInit /\ [][ReaderNext]_vars

\* getLayoutedElements applied to every graph within the bounds.
LayoutInit ==
    /\ StreamOff
    /\ MergeOff
    /\ FrameOff
    /\ ReaderOff
    /\ PersistOff
    /\ \/ \E n \in 0..MaxLayoutNodes : lIn \in LayoutGraphs(n)
       \/ lIn \in Flowcharts
    /\ lOut = [nodes |-> <<>>, edges |-> <<>>]
    /\ lPc = "call"

LayoutNext ==
    \/ LayoutCall
    \/ LayoutAgain

LayoutSpec == LayoutInit /\ [][LayoutNext]_vars

\* Manual saves and auto-saves of one map that has not been saved yet.
PersistInit ==
    /\ StreamOff
    /\ MergeOff
    /\ FrameOff
    /\ ReaderOff
    /\ LayoutOff
    /\ PersistOff

PersistNext ==
    \/ autoSave
    \/ AutoSaveTimeout
    \/ handleSaveNow
    \/ \E req \in posts : PostMaps(req)
    \/ \E resp \in responses : SaveResponse(resp)

PersistSpec == PersistInit /\ [][PersistNext]_vars

\* ------------------------------------------------------------- claims
\* The last step processed record ev of a stream.
EventStep == last.op = "event"
\* The records whose callback calls onGraphUpdate in update mode.
Materializes(ev) ==
    \/ ev.type \in {"node", "remove_node"}
    \/ ev.type = "edges" /\ ev.edges # <<>>

\* An invocation that runs and whose controller has not been aborted.
Active(t) == pc[t] \in Running /\ ~aborted[t]

\* C1: at most one stream task is active at any time, whatever the sequence
\* of streamGraph calls.
C1_AtMostOneActiveTask == Cardinality({t \in Tasks : Active(t)}) <= 1

\* C2: a streamGraph call leaves every invocation that was still running
\* cancelled, and an invocation that has been cancelled processes no further
\* record.
C2_NewTurnCancelsPrior ==
    [][ /\ \A t \in Tasks :
             (pc[t] = "idle" /\ pc'[t] = "fetching")
                => \A u \in Tasks \ {t} : pc[u] \in Running => aborted'[u]
        /\ (last'.op = "event" => ~aborted[last'.task]) ]_vars

\* C3: an edges record with an empty list leaves the shown graph as it was in
\* update mode, and leaves the shown graph without edges in create mode.
C3_EmptyEdges ==
    [][ (last'.op = "event" /\ last'.ev = EdgesEv(<<>>))
            => IF streamState.mode = "update"
               THEN graph' = graph
               ELSE graph'.edges = <<>> ]_vars

\* C3 witness: an empty edges record was processed in update mode while the
\* graph showed edges.
C3_Witness ==
    /\ EventStep /\ last.ev = EdgesEv(<<>>)
    /\ streamState.mode = "update"
    /\ graph.edges # <<>>

\* C4: after every record the accumulated and the shown node lists hold at
\* most one node per id, and a node record's payload is the one shown for its id.
C4_UpsertById ==
    /\ UniqueIds(streamState.nodes)
    /\ EventStep => UniqueIds(graph.nodes)
    /\ (EventStep /\ last.ev.type = "node")
          => \A i \in 1..Len(graph.nodes) :
                graph.nodes[i].id = last.ev.node.id => graph.nodes[i] = last.ev.node

\* C5: in create mode the graph shown after a node, remove_node or edges
\* record holds exactly the nodes accumulated from the stream.
C5_CreateIsAuthoritative ==
    (EventStep /\ streamState.mode = "create"
        /\ last.ev.type \in {"node", "remove_node", "edges"})
      => graph.nodes = streamState.nodes

\* C6: the result of mergeNodes holds no node whose id is in the removed set.
C6_RemovedNeverInOutput ==
    mPc = "return" => SeqIds(mOut) \cap mIn.removed = {}

\* The payload merge shows for id i: the one received last.
LastPayload(updated, i) ==
    updated[CHOOSE k \in 1..Len(updated) :
                /\ updated[k].id = i
                /\ \A j \in (k + 1)..Len(updated) : updated[j].id # i]
\* The surviving existing nodes in their order, id matches replaced in place.
Surviving(ex, updated, removed) ==
    LET kept == SelectSeq(ex, LAMBDA n : n.id \notin removed)
    IN  [k \in 1..Len(kept) |->
            IF kept[k].id \in SeqIds(updated) THEN LastPayload(updated, kept[k].id)
            ELSE kept[k]]
\* The ids that are not in the existing list, in the order they first arrived.
RECURSIVE NewInArrivalOrder(_, _, _)
NewInArrivalOrder(ex, updated, k) ==
    IF k > Len(updated) THEN <<>>
    ELSE LET i == updated[k].id
         IN  (IF i \notin SeqIds(ex) /\ \A j \in 1..(k - 1) : updated[j].id # i
              THEN <<LastPayload(updated, i)>> ELSE <<>>)
             \o NewInArrivalOrder(ex, updated, k + 1)

\* C7: mergeNodes returns the surviving existing nodes in their order, each id
\* match replaced in place, followed by the new ids in arrival order.
C7_MergeOrder ==
    mPc = "return"
      => mOut = Surviving(mIn.existing, mIn.updated, mIn.removed)
                \o NewInArrivalOrder(mIn.existing, mIn.updated, 1)

\* C8: in update mode the nodes shown after a record are mergeNodes of the
\* graph as it was when the turn started, the accumulated nodes and the
\* removed ids.
C8_UpdateMergesAgainstTurnStart ==
    (EventStep /\ streamState.mode = "update" /\ Materializes(last.ev))
      => graph.nodes = mergeNodes(existing[last.task].nodes, streamState.nodes,
                                  streamState.removedIds)

\* C8 witness: an update-mode record was merged for a turn that started from
\* a non-empty graph, after the shown graph had already moved away from it.
C8_Witness ==
    /\ EventStep /\ streamState.mode = "update" /\ last.ev.type = "node"
    /\ existing[last.task].nodes # <<>>
    /\ Len(streamState.nodes) >= 2
    /\ graph.nodes # existing[last.task].nodes

\* C9: an error record or a transport failure ends the invocation and is
\* reported through onError.
C9_ErrorIsTerminal ==
    /\ (EventStep /\ last.ev.type = "error")
          => (last.onError /\ pc[last.task] = "idle")
    /\ last.op \in {"fetchError", "readError"}
          => (last.onError /\ pc[last.task] = "idle")

\* C10: cancelling reports no error and leaves the shown graph as the last
\* processed record left it.
C10_CancelIsNormal ==
    [][ /\ last'.op = "aborted" => (~last'.onError /\ graph' = graph)
        /\ last'.op \in {"abort", "streamGraph"} => graph' = graph ]_vars

\* C10 witness: an invocation whose records had changed the graph was
\* cancelled and has returned.
C10_Witness ==
    /\ last.op = "aborted"
    /\ pc[last.task] = "idle"
    /\ streamState.nodes # <<>>
    /\ graph.nodes # <<>>

\* The payloads of a response body that are well-formed records, in order.
WellFormed(ps) == SelectSeq(ps, LAMBDA p : JSONParses(p))
\* What each reader parses when the whole body arrives as one chunk.
HookWhole == HookChunk(HookStart, wire.text).events
InlineWhole == InlineChunk(InlineStart, wire.text).events
HookAtEnd == wire.text # <<>> /\ hk.pos = Len(wire.text)
InlineAtEnd == wire.text # <<>> /\ il.pos = Len(wire.text)

\* C11: a malformed or truncated record is skipped on its own: once the body
\* has been read, the records that went through the switch are exactly the
\* well-formed ones, in order (for the inline reader: whenever the chunking
\* itself did not change what was read).
C11_MalformedSkippedAlone ==
    /\ HookAtEnd => hk.events = WellFormed(wire.pieces)
    /\ (InlineAtEnd /\ il.events = InlineWhole) => il.events = WellFormed(wire.pieces)

\* C12: once the framing loop has closed the stream normally, every
\* well-formed record of the text has been enqueued, in order, whatever
\* malformed text came before it.
C12_ResumesAfterMalformed ==
    fpc = "closed" => fr.out = SelectSeq(llm.pieces, LAMBDA p : p \in Records)

\* The first place at or after `from` where rec occurs in text, 0 if none.
RECURSIVE FindFrom(_, _, _)
FindFrom(text, rec, from) ==
    IF from + Len(rec) - 1 > Len(text) THEN 0
    ELSE IF SubSeq(text, from, from + Len(rec) - 1) = rec THEN from
    ELSE FindFrom(text, rec, from + 1)
\* recs occur in text one after the other without overlap.
RECURSIVE InOrderSlices(_, _, _)
InOrderSlices(text, recs, from) ==
    IF recs = <<>> THEN TRUE
    ELSE LET at == FindFrom(text, Head(recs), from)
         IN  at # 0 /\ InOrderSlices(text, Tail(recs), at + Len(Head(recs)))
IsPrefix(a, b) == Len(a) <= Len(b) /\ SubSeq(b, 1, Len(a)) = a
OnlyRecords == \A k \in 1..Len(llm.pieces) : llm.pieces[k] \in Records \cup {LineBreak}

\* C13: every enqueued record is one complete JSON object of the text read
\* so far, the records are enqueued in the order of the text, and a text made
\* of well-formed records only is enqueued record by record, whatever braces,
\* brackets and escaped quotes their strings hold.
C13_RecordsAreTopLevelObjects ==
    /\ \A k \in 1..Len(fr.out) :
          startsWith(fr.out[k], <<"{">>) /\ JSONParses(fr.out[k])
    /\ InOrderSlices(SubSeq(llm.text, 1, fpos), fr.out, 1)
    /\ OnlyRecords =>
          /\ IsPrefix(fr.out, SelectSeq(llm.pieces, LAMBDA p : p \in Records))
          /\ fpc = "closed" => fr.out = SelectSeq(llm.pieces, LAMBDA p : p \in Records)

\* C13 witness: a text whose records hold a brace and an escaped quote inside
\* strings was framed to its end and both records were enqueued.
C13_Witness ==
    /\ fpc = "closed"
    /\ OnlyRecords
    /\ fr.out = <<RecBrace, RecQuote>>

C15_ModeResetsAccumulators ==
    (EventStep /\ last.ev.type = "mode")
      => /\ streamState.mode = last.ev.mode
         /\ streamState.nodes = <<>>
         /\ streamState.removedIds = {}
         /\ streamState.edges = <<>>

\* ---- layout
LayoutReturned == lPc = "return"
LayoutIds == SeqIds(lIn.nodes)
Dangling(e) == e.source \notin LayoutIds \/ e.target \notin LayoutIds
SelfLoop(e) == e.source = e.target /\ e.source \in LayoutIds
Without(edges, k) == SubSeq(edges, 1, k - 1) \o SubSeq(edges, k + 1, Len(edges))
Touches(e, id) == e.source = id \/ e.target = id
Isolated(id) == \A k \in 1..Len(lIn.edges) : ~Touches(lIn.edges[k], id)

\* C16: layout returns, for every graph, every node of the input exactly once
\* with whole-number coordinates and nothing else changed, and the edges as
\* given; no nodes give no nodes and no edges; a first node that no edge
\* touches is at y = 0 with its center on centerX.
C16_LayoutAlwaysReturns ==
    LayoutReturned =>
      /\ Len(lOut.nodes) = Len(lIn.nodes)
      /\ \A k \in 1..Len(lIn.nodes) :
            \E j \in 1..Len(lOut.nodes) :
               /\ lOut.nodes[j] = [lIn.nodes[k] EXCEPT !.position = lOut.nodes[j].position]
               /\ lOut.nodes[j].position.x \in Int
               /\ lOut.nodes[j].position.y \in Int
      /\ lIn.nodes = <<>> => lOut = [nodes |-> <<>>, edges |-> <<>>]
      /\ lIn.nodes # <<>> => lOut.edges = lIn.edges
      /\ (lIn.nodes # <<>> /\ Isolated(lIn.nodes[1].id))
            => lOut.nodes[1].position =
                  [x |-> ResolveParams(lIn.params).centerX
                           - getNodeWidth(lIn.nodes[1].type) \div 2,
                   y |-> 0]

\* C16 witness: layout has returned for a graph of four nodes, one of them of
\* an unknown type and the first one isolated, with a cycle between two nodes
\* and an edge that dangles.
C16_Witness ==
    /\ LayoutReturned
    /\ Len(lOut.nodes) = 4
    /\ Isolated(1)
    /\ \E k \in 1..4 : lIn.nodes[k].type = "custom"
    /\ \E i, j, k \in 1..Len(lIn.edges) :
          /\ lIn.edges[i].source = lIn.edges[j].target
          /\ lIn.edges[i].target = lIn.edges[j].source
          /\ lIn.edges[i].source # lIn.edges[i].target
          /\ ~Dangling(lIn.edges[i])
          /\ Dangling(lIn.edges[k])

\* C17: an edge that dangles changes neither the islands nor the positions:
\* layout gives what it gives for the same graph without that edge.
C17_DanglingEdgeDropped ==
    LayoutReturned =>
      \A k \in 1..Len(lIn.edges) :
         Dangling(lIn.edges[k]) =>
            /\ findSubgraphs(lIn.nodes, ForwardEdges(lIn.nodes, lIn.edges))
                 = findSubgraphs(lIn.nodes, ForwardEdges(lIn.nodes, Without(lIn.edges, k)))
            /\ lOut.nodes
                 = getLayoutedElements(lIn.nodes, Without(lIn.edges, k), lIn.params).nodes

\* C18: an edge from a node to itself changes no position, whatever its type:
\* layout gives what it gives for the same graph without that edge.
C18_SelfLoopExcluded ==
    LayoutReturned =>
      \A k \in 1..Len(lIn.edges) :
         SelfLoop(lIn.edges[k]) =>
            lOut.nodes = getLayoutedElements(lIn.nodes, Without(lIn.edges, k), lIn.params).nodes

\* The islands of the graph in lIn and what layoutSubgraph is given for one.
LayoutForward == ForwardEdges(lIn.nodes, lIn.edges)
Islands == findSubgraphs(lIn.nodes, LayoutForward)
IslandNodes(i) == SubgraphNodes(lIn.nodes, Islands[i])
IslandEdges(i) == SubgraphEdges(LayoutForward, Islands[i])
IslandRoots(i) == Islands[i] \ {IslandEdges(i)[k].target : k \in 1..Len(IslandEdges(i))}
\* The levels layoutSubgraph works with in an island that has a start node.
IslandLevel(i, id) ==
    LevelOf(BfsLoop(<<[id |-> IslandNodes(i)[StartNode(IslandNodes(i), IslandEdges(i))].id,
                       level |-> 0]>>, <<>>, LayoutForward, Islands[i]), id)
\* Breadth-first levels from a set of nodes: seen maps the nodes visited so
\* far to their levels, frontier holds the ones visited last, at `level`.
RECURSIVE BreadthFirst(_, _, _, _)
BreadthFirst(edges, seen, frontier, level) ==
    LET next == {edges[k].target : k \in {k \in 1..Len(edges) : edges[k].source \in frontier}}
                   \ DOMAIN seen
    IN  IF next = {} THEN seen
        ELSE BreadthFirst(edges,
                          [n \in DOMAIN seen \cup next |->
                              IF n \in next THEN level + 1 ELSE seen[n]],
                          next, level + 1)
LevelsFrom(edges, roots) == BreadthFirst(edges, [n \in roots |-> 0], roots, 0)

\* C19: in a graph without dangling edges, in an island that has roots, every
\* root has level 0 and every node the roots reach has the level of its first
\* visit in the breadth-first traversal from all of them.
C19_LevelsFromEveryRoot ==
    (LayoutReturned /\ \A k \in 1..Len(lIn.edges) : ~Dangling(lIn.edges[k])) =>
      \A i \in 1..Len(Islands) :
         IslandRoots(i) # {} =>
            LET levels == LevelsFrom(IslandEdges(i), IslandRoots(i))
            IN  \A id \in DOMAIN levels : IslandLevel(i, id) = levels[id]

\* C20: a first island in which every node has an incoming forward edge from
\* another node is laid out by the ordinary rules, with the levels of the
\* breadth-first traversal from one of its nodes.
C20_NoRootFallsBackToSomeNode ==
    (LayoutReturned /\ lIn.nodes # <<>>) =>
      ( ( /\ IslandRoots(1) = {}
          /\ \A k \in 1..Len(IslandEdges(1)) : ~SelfLoop(IslandEdges(1)[k]) )
        => \E start \in 1..Len(IslandNodes(1)) :
              SubSeq(lOut.nodes, 1, Len(IslandNodes(1)))
                = LayoutFrom(IslandNodes(1), LayoutForward, start,
                             ResolveParams(lIn.params).centerX,
                             ResolveParams(lIn.params).verticalGap,
                             ResolveParams(lIn.params).branchOffset).layoutedNodes )

\* ---- layout: coordinates
\* The params of the call in lIn as the code resolves them.
Resolved == ResolveParams(lIn.params)
\* An island that has a start node, so that it is levelled.
HasStart(i) == StartNode(IslandNodes(i), IslandEdges(i)) # 0
\* The Map nodeLevel of an island that has a start node.
IslandLevels(i) ==
    LET nodes == IslandNodes(i)
    IN  BfsLoop(<<[id |-> nodes[StartNode(nodes, IslandEdges(i))].id, level |-> 0]>>,
                <<>>, LayoutForward, Islands[i])
\* The nodes that share the level of node id, in array order.
LevelMates(i, id) ==
    LET nodeLevel == IslandLevels(i)
    IN  LevelNodes(IslandNodes(i), nodeLevel, LevelOf(nodeLevel, id))
\* The sources of the forward edges of the island that end at node id.
IslandParents(i, id) ==
    LET edges == IslandEdges(i)
    IN  {edges[k].source : k \in {k \in 1..Len(edges) : edges[k].target = id}}
IslandChildren(i, id) ==
    LET edges == IslandEdges(i)
    IN  {edges[k].target : k \in {k \in 1..Len(edges) : edges[k].source = id}}
\* The value of nextSubgraphStart when island i is laid out, and the center
\* handed to layoutSubgraph for it.
RECURSIVE NextStart(_)
NextStart(i) ==
    IF i <= 2 THEN Resolved.centerX + Px(300)
    ELSE NextStart(i - 1) + Resolved.subgraphGap
           + layoutSubgraph(IslandNodes(i - 1), IslandEdges(i - 1), LayoutForward, 0,
                            Resolved.verticalGap, Resolved.branchOffset).width
IslandCenterX(i) == SubgraphCenterX(i, Resolved, NextStart(i))
\* A node of the output, and its center-x by the dimension table.
OutNode(id) == lOut.nodes[IndexOfId(lOut.nodes, id)]
OutCenter(id) == LET node == OutNode(id) IN node.position.x + getNodeWidth(node.type) \div 2
\* the tolerance of the lane rule, 50 pixels
OffCenter(i, id) == Abs(OutCenter(id) - IslandCenterX(i)) > Px(50)

\* C21: a node that is alone on its level and has exactly one parent in its
\* island, the center of which is further than the tolerance from the center
\* of the island, has the center-x of that parent.
C21_AlignsWithOffCenterParent ==
    LayoutReturned =>
      \A i \in 1..Len(Islands) :
         HasStart(i) =>
            \A k \in 1..Len(IslandNodes(i)) :
               LET id == IslandNodes(i)[k].id
               IN  ( /\ Len(LevelMates(i, id)) = 1
                     /\ Cardinality(IslandParents(i, id)) = 1
                     /\ \A p \in IslandParents(i, id) : OffCenter(i, p) )
                   => \A p \in IslandParents(i, id) : OutCenter(id) = OutCenter(p)

\* The bounding boxes of two nodes of the output share some area.
Overlap(a, b) ==
    /\ a.position.x < b.position.x + getNodeWidth(b.type)
    /\ b.position.x < a.position.x + getNodeWidth(a.type)
    /\ a.position.y < b.position.y + getNodeHeight(b.type)
    /\ b.position.y < a.position.y + getNodeHeight(a.type)

\* C22: in a layout made without params (centerX 300, branchOffset 200,
\* verticalGap 60, subgraphGap 150) no two nodes of the output have bounding
\* boxes that overlap, whether they are in one island or in two.
C22_NoOverlap ==
    (LayoutReturned /\ lIn.params = NoParams) =>
      \A j, k \in 1..Len(lOut.nodes) :
         j # k => ~Overlap(lOut.nodes[j], lOut.nodes[k])

\* The width of a levelled island as the claim gives it.
LargestLevel(i) ==
    MaxOf({Len(LevelMates(i, IslandNodes(i)[k].id)) : k \in 1..Len(IslandNodes(i))})
ClaimedWidth(i) == Max(Px(400), (LargestLevel(i) - 1) * Resolved.branchOffset + Px(200))
\* The running offset: it starts 300 to the right of centerX and moves on by
\* the width of every later island plus subgraphGap.
RECURSIVE RunningOffset(_)
RunningOffset(i) ==
    IF i <= 2 THEN Resolved.centerX + Px(300)
    ELSE RunningOffset(i - 1) + ClaimedWidth(i - 1) + Resolved.subgraphGap
ClaimedCenter(i) ==
    IF i = 1 THEN Resolved.centerX
    ELSE RunningOffset(i) + ClaimedWidth(i) \div 2 + Resolved.subgraphGap \div 2
\* The start node of an island is alone on level 0: it stands on the center
\* of its island.
LoneStart(i) ==
    /\ HasStart(i)
    /\ Len(LevelMates(i, IslandNodes(i)[StartNode(IslandNodes(i), IslandEdges(i))].id)) = 1
StartCenter(i) == OutCenter(IslandNodes(i)[StartNode(IslandNodes(i), IslandEdges(i))].id)

\* C23: when every island is levelled and no edge dangles, the first island
\* is centered at centerX and every later island at the running offset plus
\* half its width plus half of subgraphGap, the width of an island being
\* max(400, (largest level size - 1) * branchOffset + 200).
C23_IslandPacking ==
    ( /\ LayoutReturned
      /\ \A k \in 1..Len(lIn.edges) : ~Dangling(lIn.edges[k])
      /\ \A i \in 1..Len(Islands) : HasStart(i) )
    => \A i \in 1..Len(Islands) : LoneStart(i) => StartCenter(i) = ClaimedCenter(i)

\* The graph in lIn is a single unbranched chain: N nodes, N - 1 edges between
\* them, no node with two incoming or two outgoing edges, and every node
\* reached from the one node that has no incoming edge.
EdgesInto(id) == {k \in 1..Len(lIn.edges) : lIn.edges[k].target = id}
EdgesOutOf(id) == {k \in 1..Len(lIn.edges) : lIn.edges[k].source = id}
IsChain ==
    /\ lIn.nodes # <<>>
    /\ Len(lIn.edges) = Len(lIn.nodes) - 1
    /\ \A k \in 1..Len(lIn.edges) : ~Dangling(lIn.edges[k]) /\ ~SelfLoop(lIn.edges[k])
    /\ \A id \in LayoutIds : Cardinality(EdgesInto(id)) <= 1 /\ Cardinality(EdgesOutOf(id)) <= 1
    /\ \E head \in LayoutIds :
          /\ EdgesInto(head) = {}
          /\ DOMAIN LevelsFrom(lIn.edges, {head}) = LayoutIds
\* The prior position of the target of edge e is above that of its source.
PointsUp(e) ==
    /\ ~Dangling(e)
    /\ lIn.nodes[IndexOfId(lIn.nodes, e.target)].position.y
          < lIn.nodes[IndexOfId(lIn.nodes, e.source)].position.y
AllOnSpine == \A k \in 1..Len(lOut.nodes) : OutCenter(lOut.nodes[k].id) = Resolved.centerX

\* C24 as stated: whatever the prior positions, every node of an unbranched
\* chain has its center-x on centerX.
C24_ChainCenteredAnyPositions ==
    (LayoutReturned /\ IsChain) => AllOnSpine

\* C24 as amended: every node of an unbranched chain none of whose edges
\* points from a node to a node that was above it before has its center-x on
\* centerX.
C24_ChainCentered ==
    (LayoutReturned /\ IsChain /\ \A k \in 1..Len(lIn.edges) : ~PointsUp(lIn.edges[k]))
       => AllOnSpine

\* C24 witness: a chain of four nodes of different widths that stood one below
\* the other before is on the spine.
C24_Witness ==
    /\ LayoutReturned
    /\ IsChain
    /\ Len(lIn.nodes) = 4
    /\ lIn.nodes[1].type = "oval"
    /\ lIn.nodes[4].position.y > 0
    /\ \A k \in 1..Len(lIn.edges) : ~PointsUp(lIn.edges[k])
    /\ AllOnSpine

\* Every island of the graph in lIn with what layoutSubgraph works with: its
\* ids, nodes and edges, the index of its start node (0 when it has none) and
\* its Map nodeLevel.
IslandTable ==
    LET islands == Islands
        forward == LayoutForward
    IN  [i \in 1..Len(islands) |->
            LET nodes == SubgraphNodes(lIn.nodes, islands[i])
                edges == SubgraphEdges(forward, islands[i])
                start == StartNode(nodes, edges)
            IN  [ids |-> islands[i], nodes |-> nodes, edges |-> edges, start |-> start,
                 levels |-> IF start = 0 THEN <<>>
                            ELSE BfsLoop(<<[id |-> nodes[start].id, level |-> 0]>>, <<>>,
                                         forward, islands[i])]]
\* The targets of the edges among `edges` that leave node id.
TargetsOf(edges, id) == {edges[k].target : k \in {k \in 1..Len(edges) : edges[k].source = id}}

\* Node d of island i has exactly the two children a and b, a before b in
\* the node array.
TwoChildren(i, d, a, b) ==
    /\ IslandChildren(i, d) = {a, b}
    /\ IndexOfId(lIn.nodes, a) < IndexOfId(lIn.nodes, b)
\* a on the left and b on the right of the center of island i
LeftAndRight(i, a, b) ==
    LET center == IslandCenterX(i)
    IN  /\ OutCenter(a) = center - Resolved.branchOffset
        /\ OutCenter(b) = center + Resolved.branchOffset

\* C25 as stated: in a graph without dangling edges and self-loops, in an
\* island with one root, a node with exactly two children has them at the
\* center minus and plus branchOffset, the child that is first in the input on
\* the left.
C25_DecisionChildrenSymmetric ==
    ( /\ LayoutReturned
      /\ \A k \in 1..Len(lIn.edges) : ~Dangling(lIn.edges[k]) /\ ~SelfLoop(lIn.edges[k]) ) =>
      \A i \in 1..Len(Islands) :
         Cardinality(IslandRoots(i)) = 1 =>
            \A d, a, b \in Islands[i] :
               TwoChildren(i, d, a, b) => LeftAndRight(i, a, b)

\* C25 as amended: in an island that has a start node, a node with exactly
\* two children that are the only two nodes of their level has them at the
\* center of the island minus and plus branchOffset, the child that is first
\* in the node array on the left.
C25_TwoOnLevelSymmetric ==
    LayoutReturned =>
      LET table == IslandTable
      IN  \A i \in DOMAIN table :
             table[i].start # 0 =>
                \A d \in table[i].ids :
                   LET children == TargetsOf(table[i].edges, d)
                   IN  \A a, b \in children :
                          ( /\ children = {a, b}
                            /\ IndexOfId(lIn.nodes, a) < IndexOfId(lIn.nodes, b)
                            /\ SeqIds(LevelNodes(table[i].nodes, table[i].levels,
                                                 LevelOf(table[i].levels, a))) = {a, b} )
                          => LeftAndRight(i, a, b)

\* C25 witness: a decision that is the second island has its two branches at
\* 800 - 200 and 800 + 200.
C25_Witness ==
    /\ LayoutReturned
    /\ Len(Islands) >= 2
    /\ HasStart(2)
    /\ \E d, a, b \in Islands[2] :
          /\ TwoChildren(2, d, a, b)
          /\ SeqIds(LevelMates(2, a)) = {a, b}
          /\ OutNode(d).type = "diamond"
          /\ OutCenter(a) = Px(600)
          /\ OutCenter(b) = Px(1000)

\* The heights of the dimension table: oval 45, diamond 160, all else 50.
TableHeight(type) ==
    IF type = "oval" THEN Px(45) ELSE IF type = "diamond" THEN Px(160) ELSE Px(50)
\* The tallest node of level l of an island.
TallestAt(island, l) ==
    LET group == LevelNodes(island.nodes, island.levels, l)
    IN  MaxOf({TableHeight(group[k].type) : k \in 1..Len(group)})
\* The y of level l as the claim gives it.
RECURSIVE ClaimedY(_, _)
ClaimedY(island, l) ==
    IF l = 0 THEN 0
    ELSE ClaimedY(island, l - 1) + TallestAt(island, l - 1) + Resolved.verticalGap
\* the chain oval -> default -> diamond, laid out with verticalGap 60
HeightChain ==
    /\ Len(lIn.nodes) = 3
    /\ [k \in 1..3 |-> lIn.nodes[k].type] = <<"oval", "default", "diamond">>
    /\ [k \in 1..Len(lIn.edges) |-> <<lIn.edges[k].source, lIn.edges[k].target>>]
          = << <<1, 2>>, <<2, 3>> >>
    /\ \A k \in 1..Len(lIn.edges) : ~PointsUp(lIn.edges[k])
    /\ Resolved.verticalGap = Px(60)

\* C26: in every island that has a start node, the nodes of level 0 are at
\* y = 0 and the nodes of every next level at the y of the level before plus
\* the tallest height of that level plus verticalGap; the chain oval ->
\* default -> diamond is at y = 0, 105, 215.
C26_LevelY ==
    LayoutReturned =>
      /\ LET table == IslandTable
         IN  \A i \in DOMAIN table :
                table[i].start # 0 =>
                   \A k \in 1..Len(table[i].nodes) :
                      OutNode(table[i].nodes[k].id).position.y
                         = ClaimedY(table[i], LevelOf(table[i].levels, table[i].nodes[k].id))
      /\ HeightChain =>
            [k \in 1..3 |-> lOut.nodes[k].position.y] = <<0, Px(105), Px(215)>>

\* C26 witness: the chain oval -> default -> diamond has been laid out.
C26_Witness ==
    /\ LayoutReturned
    /\ HeightChain
    /\ [k \in 1..3 |-> lOut.nodes[k].position.y] = <<0, Px(105), Px(215)>>

\* Node a with everything but its position.
Unpositioned(a) == [f \in DOMAIN a \ {"position"} |-> a[f]]

\* C27: layout changes nothing but positions: every node of the input is in
\* the output exactly once with its id, type and data, the output has no
\* other node, and the edges are returned as they were given.
C27_OnlyPositionsChange ==
    LayoutReturned =>
      /\ Len(lOut.nodes) = Len(lIn.nodes)
      /\ \A k \in 1..Len(lIn.nodes) :
            Cardinality({j \in 1..Len(lOut.nodes) :
                           Unpositioned(lOut.nodes[j]) = Unpositioned(lIn.nodes[k])}) = 1
      /\ lOut.edges = lIn.edges

\* The graph in lIn has no dangling edge and no self-loop, and every island
\* of it has a start node.
Levelled ==
    /\ \A k \in 1..Len(lIn.edges) : ~Dangling(lIn.edges[k]) /\ ~SelfLoop(lIn.edges[k])
    /\ \A i \in 1..Len(Islands) : HasStart(i)

\* C29: when auto-layout is pressed again on the graph it returned, with
\* every island levelled in both passes, no node moves.
C29_LayoutIdempotent ==
    [][ (lPc = "return" /\ lPc' = "again" /\ Levelled /\ Levelled')
           => lOut'.nodes = lOut.nodes ]_vars

\* ---- persistence
\* C30: whatever the order of manual saves, auto-saves, the server's handling
\* of them and their responses, the maps table holds at most one row for the
\* map.
C30_AtMostOneRecord == Cardinality(maps) <= 1

====
